---- MODULE Spec2Model ----
(***************************************************************************)
(* uc3m_money: AccountDeposit, TransferRequest and AccountManager.         *)
(*                                                                         *)
(* Python values are records [t, s, n]: t is the type name, s the text of  *)
(* a str as a sequence of one-character strings, n the number of an int    *)
(* or, for a finite float, its value in thousandths (10.00 is 10000).      *)
(* The non-finite floats carry their name in s.                            *)
(***************************************************************************)
EXTENDS Integers, Sequences, FiniteSets, TLC

VARIABLES
    ad,     \* the caller's AccountDeposit reference: object or NoObject
    tr,     \* the caller's TransferRequest reference: object or NoObject
    file,   \* the JSON file the records are saved to: [kind, entries]
    last,   \* the last call: [op, args, result, ret, exc, msg]
    log,    \* transactions.json: [kind, entries]
    balance,  \* the balance file written: [name, data], or NoBalance
    writers   \* the processes saving deposits concurrently: [pc, obj, data, result]

vars == <<ad, tr, file, last, log, balance, writers>>

---------------------------------------------------------------------------
(* Bounds of the model *)

MaxEntries == 2
MaxTime == 2
MaxIbanLen == 26
AmountSpread == 11
MaxWordLen == 16
DateSpread == 2

---------------------------------------------------------------------------
(* Python values *)

StrV(s) == [t |-> "str", s |-> s, n |-> 0]
IntV(i) == [t |-> "int", s |-> <<>>, n |-> i]
FloatV(m) == [t |-> "float", s |-> <<>>, n |-> m]
NaN == [t |-> "float", s |-> <<"n", "a", "n">>, n |-> 0]
Inf == [t |-> "float", s |-> <<"i", "n", "f">>, n |-> 0]
BoolV(b) == [t |-> "bool", s |-> <<>>, n |-> IF b THEN 1 ELSE 0]
None == [t |-> "NoneType", s |-> <<>>, n |-> 0]

\* a bytes object, a value json.dump cannot write
Bytes == [t |-> "bytes", s |-> <<"x">>, n |-> 0]

NoObject == [t |-> "unbound", s |-> <<>>, n |-> 0]

isinstance(v, type) == v.t = type

IsFinite(v) == v.t = "float" /\ v.s = <<>>

\* c repeated k times
Rep(c, k) == [i \in 1..k |-> c]

Digits == <<"0", "1", "2", "3", "4", "5", "6", "7", "8", "9">>

IsDigit(c) == \E i \in 1..10 : Digits[i] = c

DigitValue(c) == (CHOOSE i \in 1..10 : Digits[i] = c) - 1

\* str(i) of a non-negative int
RECURSIVE NatStr(_)
NatStr(i) == IF i < 10 THEN <<Digits[i + 1]>>
             ELSE NatStr(i \div 10) \o <<Digits[(i % 10) + 1]>>

IntStr(i) == IF i < 0 THEN <<"-">> \o NatStr(-i) ELSE NatStr(i)

\* s without its trailing "0"s, keeping at least one character
RECURSIVE StripZeros(_)
StripZeros(s) == IF Len(s) > 1 /\ s[Len(s)] = "0"
                 THEN StripZeros(SubSeq(s, 1, Len(s) - 1))
                 ELSE s

\* the three digits of a number of thousandths
Frac3(k) == <<Digits[(k \div 100) + 1], Digits[((k \div 10) % 10) + 1],
              Digits[(k % 10) + 1]>>

\* str(x) of a float: the shortest decimal text that reads back as x, which
\* always has a point and at least one digit after it
FloatStr(v) ==
    IF ~IsFinite(v) THEN v.s
    ELSE LET a == IF v.n < 0 THEN -v.n ELSE v.n
             body == NatStr(a \div 1000) \o <<".">> \o StripZeros(Frac3(a % 1000))
         IN  IF v.n < 0 THEN <<"-">> \o body ELSE body

\* str(v)
PyStr(v) ==
    CASE v.t = "str" -> v.s
      [] v.t = "int" -> IntStr(v.n)
      [] v.t = "float" -> FloatStr(v)
      [] v.t = "bool" -> IF v.n = 1 THEN <<"T", "r", "u", "e">>
                         ELSE <<"F", "a", "l", "s", "e">>
      [] v.t = "bytes" -> <<"b", "'">> \o v.s \o <<"'">>
      [] OTHER -> <<"N", "o", "n", "e">>

\* s.split(sep) for a one-character separator
RECURSIVE split(_, _)
split(s, sep) ==
    IF \A i \in 1..Len(s) : s[i] # sep THEN <<s>>
    ELSE LET i == CHOOSE j \in 1..Len(s) :
                      s[j] = sep /\ \A k \in 1..(j - 1) : s[k] # sep
         IN  <<SubSeq(s, 1, i - 1)>> \o split(SubSeq(s, i + 1, Len(s)), sep)

\* sep in s
Contains(s, c) == \E i \in 1..Len(s) : s[i] = c

\* s.startswith("ES")
StartsWithES(s) == Len(s) >= 2 /\ s[1] = "E" /\ s[2] = "S"

\* lo <= v <= hi, a chained comparison of numbers, lo and hi in thousandths
Between(lo, v, hi) == IsFinite(v) /\ lo <= v.n /\ v.n <= hi

IbanLength == 24
MinAmount == 10000
MaxAmount == 10000000

---------------------------------------------------------------------------
(* AccountDeposit *)

OK == "ok"

\* 10.00 < amount < 10000.00, the range without its bounds
DepositAmountInRangeExclusive(v) == IsFinite(v) /\ MinAmount < v.n /\ v.n < MaxAmount

\* 10.00 <= self.__deposit_amount <= 10000.00
DepositAmountInRange(v) == Between(MinAmount, v, MaxAmount)

\* AccountDeposit.validate with the prefix checked before the length
DepositValidatePrefixFirst(o) ==
    IF ~isinstance(o.to_iban, "str") THEN "to_iban must be a string."
    ELSE IF ~StartsWithES(o.to_iban.s) THEN "to_iban must start with 'ES'."
    ELSE IF Len(o.to_iban.s) # IbanLength THEN "to_iban must be exactly 24 characters."
    ELSE IF ~isinstance(o.deposit_amount, "float") THEN "deposit_amount must be a float."
    ELSE IF ~DepositAmountInRange(o.deposit_amount)
         THEN "deposit_amount must be between 10.00 and 10000.00."
    ELSE IF /\ Contains(PyStr(o.deposit_amount), ".")
            /\ Len(split(PyStr(o.deposit_amount), ".")[2]) > 2
         THEN "deposit_amount must have at most 2 decimal places."
    ELSE OK

\* AccountDeposit.validate: the message of the exception raised, or OK
DepositValidate(o) ==
    IF ~isinstance(o.to_iban, "str") THEN "to_iban must be a string."
    ELSE IF Len(o.to_iban.s) # IbanLength THEN "to_iban must be exactly 24 characters."
    ELSE IF ~StartsWithES(o.to_iban.s) THEN "to_iban must start with 'ES'."
    ELSE IF ~isinstance(o.deposit_amount, "float") THEN "deposit_amount must be a float."
    ELSE IF ~DepositAmountInRange(o.deposit_amount)
         THEN "deposit_amount must be between 10.00 and 10000.00."
    ELSE IF /\ Contains(PyStr(o.deposit_amount), ".")
            /\ Len(split(PyStr(o.deposit_amount), ".")[2]) > 2
         THEN "deposit_amount must have at most 2 decimal places."
    ELSE OK


\* the fields __init__ sets before it validates; now is the clock's reading
DepositFields(to_iban, deposit_amount, now) ==
    [alg |-> StrV(<<"S", "H", "A", "-", "2", "5", "6">>),
     typ |-> StrV(<<"D", "E", "P", "O", "S", "I", "T">>),
     to_iban |-> to_iban,
     deposit_amount |-> deposit_amount,
     deposit_date |-> FloatV(now * 1000)]

\* __signature_string with the deposit date left out
SignatureStringWithoutDate(o) ==
    <<"{", "a", "l", "g", ":">> \o PyStr(o.alg)
    \o <<",", "t", "y", "p", ":">> \o PyStr(o.typ)
    \o <<",", "i", "b", "a", "n", ":">> \o PyStr(o.to_iban)
    \o <<",", "a", "m", "o", "u", "n", "t", ":">> \o PyStr(o.deposit_amount) \o <<"}">>

\* AccountDeposit.__signature_string
SignatureString(o) ==
    <<"{", "a", "l", "g", ":">> \o PyStr(o.alg)
    \o <<",", "t", "y", "p", ":">> \o PyStr(o.typ)
    \o <<",", "i", "b", "a", "n", ":">> \o PyStr(o.to_iban)
    \o <<",", "a", "m", "o", "u", "n", "t", ":">> \o PyStr(o.deposit_amount)
    \o <<",", "d", "e", "p", "o", "s", "i", "t", "_", "d", "a", "t", "e", ":">>
    \o PyStr(o.deposit_date) \o <<"}">>

\* hashlib.sha256(text).hexdigest(), taken as free of collisions: the digest
\* stands for the text it was computed from
sha256(text) == <<"#">> \o text

\* AccountDeposit.deposit_signature
deposit_signature(o) == StrV(sha256(SignatureString(o)))

\* AccountDeposit.to_json
to_json(o) ==
    [alg |-> o.alg,
     typ |-> o.typ,
     to_iban |-> o.to_iban,
     deposit_amount |-> o.deposit_amount,
     deposit_date |-> o.deposit_date,
     deposit_signature |-> deposit_signature(o)]

\* a == b of two Python values: numbers compare by value, nan equals nothing
IsNumber(v) == v.t = "int" \/ v.t = "bool" \/ IsFinite(v)

Thousandths(v) == IF v.t = "float" THEN v.n ELSE v.n * 1000

PyEq(a, b) ==
    IF IsNumber(a) /\ IsNumber(b) THEN Thousandths(a) = Thousandths(b)
    ELSE IF a = NaN \/ b = NaN THEN FALSE
    ELSE a = b

DepositKeys == {"alg", "typ", "to_iban", "deposit_amount", "deposit_date",
                "deposit_signature"}

\* entry == self.to_json() of two dicts
DictEq(a, b) == DOMAIN a = DOMAIN b /\ \A k \in DOMAIN a : PyEq(a[k], b[k])

\* IsDuplicate with the last entry of data left out of the comparison
IsDuplicateButLast(data, entry) == \E i \in 1..(Len(data) - 1) : DictEq(data[i], entry)

\* a duplicate check on the identifier and the amount alone
IsDuplicateIgnoringDate(data, entry) ==
    \E i \in 1..Len(data) :
        /\ PyEq(data[i].to_iban, entry.to_iban)
        /\ PyEq(data[i].deposit_amount, entry.deposit_amount)

\* any(entry == self.to_json() for entry in data)
IsDuplicate(data, entry) == \E i \in 1..Len(data) : DictEq(data[i], entry)


---------------------------------------------------------------------------
(* The JSON text of a value and back (json.dump, json.load) *)

\* int(text) of a run of digits
RECURSIVE ParseNat(_)
ParseNat(s) == IF Len(s) = 0 THEN 0
               ELSE ParseNat(SubSeq(s, 1, Len(s) - 1)) * 10 + DigitValue(s[Len(s)])

\* a string between its quotes in JSON: a quote and a backslash get a
\* backslash before them
RECURSIVE Escape(_)
Escape(s) ==
    IF \A i \in 1..Len(s) : s[i] \notin {"\"", "\\"} THEN s
    ELSE IF s[1] \in {"\"", "\\"} THEN <<"\\", s[1]>> \o Escape(Tail(s))
    ELSE <<s[1]>> \o Escape(Tail(s))

RECURSIVE Unescape(_)
Unescape(s) ==
    IF \A i \in 1..Len(s) : s[i] # "\\" THEN s
    ELSE IF s[1] = "\\" /\ Len(s) >= 2 THEN <<s[2]>> \o Unescape(SubSeq(s, 3, Len(s)))
    ELSE <<s[1]>> \o Unescape(Tail(s))

\* json.dumps(v) with the characters of a string written as they are
JsonDumpsUnescaped(v) ==
    CASE v.t = "str" -> <<"\"">> \o v.s \o <<"\"">>
      [] v.t = "int" -> IntStr(v.n)
      [] v.t = "float" -> IF v = NaN THEN <<"N", "a", "N">>
                          ELSE IF v = Inf THEN <<"I", "n", "f", "i", "n", "i", "t", "y">>
                          ELSE FloatStr(v)
      [] v.t = "bool" -> IF v.n = 1 THEN <<"t", "r", "u", "e">> ELSE <<"f", "a", "l", "s", "e">>
      [] OTHER -> <<"n", "u", "l", "l">>

\* json.dumps(v)
JsonDumps(v) ==
    CASE v.t = "str" -> <<"\"">> \o Escape(v.s) \o <<"\"">>
      [] v.t = "int" -> IntStr(v.n)
      [] v.t = "float" -> IF v = NaN THEN <<"N", "a", "N">>
                          ELSE IF v = Inf THEN <<"I", "n", "f", "i", "n", "i", "t", "y">>
                          ELSE FloatStr(v)
      [] v.t = "bool" -> IF v.n = 1 THEN <<"t", "r", "u", "e">> ELSE <<"f", "a", "l", "s", "e">>
      [] OTHER -> <<"n", "u", "l", "l">>

\* the digits after the point as thousandths
FracValue(f) == ParseNat(SubSeq(f \o <<"0", "0", "0">>, 1, 3))

\* json.loads(text) of a text JsonDumps wrote
JsonLoads(text) ==
    IF text[1] = "\"" THEN StrV(Unescape(SubSeq(text, 2, Len(text) - 1)))
    ELSE IF text = <<"n", "u", "l", "l">> THEN None
    ELSE IF text = <<"t", "r", "u", "e">> THEN BoolV(TRUE)
    ELSE IF text = <<"f", "a", "l", "s", "e">> THEN BoolV(FALSE)
    ELSE IF text = <<"N", "a", "N">> THEN NaN
    ELSE IF text = <<"I", "n", "f", "i", "n", "i", "t", "y">> THEN Inf
    ELSE LET neg == text[1] = "-"
             body == IF neg THEN SubSeq(text, 2, Len(text)) ELSE text
             parts == split(body, ".")
             sign == IF neg THEN -1 ELSE 1
         IN  IF Len(parts) = 1 THEN IntV(sign * ParseNat(body))
             ELSE FloatV(sign * (ParseNat(parts[1]) * 1000 + FracValue(parts[2])))

\* one dict as json.dump writes it, and as json.load reads it
DumpEntry(e) == [k \in DOMAIN e |-> JsonDumps(e[k])]

LoadEntry(e) == [k \in DOMAIN e |-> JsonLoads(e[k])]

\* the file: absent, a JSON list of entries (each key's value as JSON text),
\* text that is not JSON (an empty file), or the JSON object {}
Absent == [kind |-> "absent", entries |-> <<>>]

ListFile(entries) == [kind |-> "list", entries |-> entries]

NotJson == [kind |-> "notjson", entries |-> <<>>]

DictFile == [kind |-> "dict", entries |-> <<>>]

\* json.load(f) of a list file
LoadData(f) == [i \in 1..Len(f.entries) |-> LoadEntry(f.entries[i])]

---------------------------------------------------------------------------
(* The calls on an AccountDeposit *)

\* a call that returned None, one that returned ret, one that raised
Call(op, args) ==
    [op |-> op, args |-> args, result |-> "ok", ret |-> None, exc |-> "", msg |-> ""]

Return(op, args, ret) ==
    [op |-> op, args |-> args, result |-> "ok", ret |-> ret, exc |-> "", msg |-> ""]

Raise(op, args, exc, msg) ==
    [op |-> op, args |-> args, result |-> "raise", ret |-> None, exc |-> exc, msg |-> msg]

AME == "AccountManagementException"

\* ad = AccountDeposit(to_iban, deposit_amount), the clock reading now
NewDeposit(to_iban, deposit_amount, now) ==
    /\ ad = NoObject
    /\ LET o == DepositFields(to_iban, deposit_amount, now)
           e == DepositValidate(o)
           args == <<to_iban, deposit_amount>>
       IN  IF e = OK
           THEN /\ ad' = o
                /\ last' = Call("AccountDeposit", args)
           ELSE /\ ad' = ad
                /\ last' = Raise("AccountDeposit", args, AME, e)
    /\ UNCHANGED <<tr, file, log, balance, writers>>

\* the reference goes out of scope
DelDeposit ==
    /\ ad # NoObject
    /\ ad' = NoObject
    /\ UNCHANGED <<tr, file, last, log, balance, writers>>

\* ad.to_iban = value
SetToIban(value) ==
    /\ ad # NoObject
    /\ ad' = [ad EXCEPT !.to_iban = value]
    /\ last' = Call("to_iban.setter", <<value>>)
    /\ UNCHANGED <<tr, file, log, balance, writers>>

\* a deposit_amount setter that runs validate on the new value and keeps
\* the old one when validate raises
SetDepositAmountValidating(value) ==
    /\ ad # NoObject
    /\ LET o == [ad EXCEPT !.deposit_amount = value]
           e == DepositValidate(o)
       IN  IF e = OK
           THEN /\ ad' = o
                /\ last' = Call("deposit_amount.setter", <<value>>)
           ELSE /\ ad' = ad
                /\ last' = Raise("deposit_amount.setter", <<value>>, AME, e)
    /\ UNCHANGED <<tr, file, log, balance, writers>>

\* ad.deposit_amount = value
SetDepositAmount(value) ==
    /\ ad # NoObject
    /\ ad' = [ad EXCEPT !.deposit_amount = value]
    /\ last' = Call("deposit_amount.setter", <<value>>)
    /\ UNCHANGED <<tr, file, log, balance, writers>>

\* ad.deposit_date = value
SetDepositDate(value) ==
    /\ ad # NoObject
    /\ ad' = [ad EXCEPT !.deposit_date = value]
    /\ last' = Call("deposit_date.setter", <<value>>)
    /\ UNCHANGED <<tr, file, log, balance, writers>>

DuplicateDeposit == "Duplicate deposit entry detected."

\* a message that drops the text of the exception caught
ErrorSavingWithoutText(msg) == "Error saving deposit to file"

\* the message of the exception caught, passed on as it is
ErrorSavingUnwrapped(msg) == msg

\* the message of the exception save_to_file raises for the one it caught
ErrorSaving(msg) == "Error saving deposit to file: " \o msg

\* a file that is a directory, one holding a JSON number, string or null, and
\* one a write left unfinished
Directory == [kind |-> "directory", entries |-> <<>>]

ScalarFile(v) == [kind |-> "scalar", entries |-> <<v>>]

PartialFile == [kind |-> "partial", entries |-> <<>>]

\* the values json.dump writes
Serializable(v) == v.t \in {"str", "int", "float", "bool", "NoneType"}

\* the fields in the order json.dump writes them
DepositKeyOrder ==
    <<"alg", "typ", "to_iban", "deposit_amount", "deposit_date", "deposit_signature">>

\* the TypeError of json.dump at the first value it cannot write
NotSerializable(entry) ==
    LET k == CHOOSE i \in 1..6 :
                 /\ ~Serializable(entry[DepositKeyOrder[i]])
                 /\ \A j \in 1..(i - 1) : Serializable(entry[DepositKeyOrder[j]])
    IN  "Object of type " \o entry[DepositKeyOrder[k]].t \o " is not JSON serializable"

\* ad.save_to_file(file_path), disk saying whether the device takes the
\* write; the text a failed write leaves is not read again
SaveToFile(disk) ==
    /\ ad # NoObject
    /\ file.kind # "partial"
    /\ LET entry == to_json(ad)
           data == IF file.kind = "list" THEN LoadData(file) ELSE <<>>
           op == "save_to_file"
           fail(msg) == last' = Raise(op, <<>>, AME, ErrorSaving(msg))
       IN  IF file.kind = "directory"
           THEN fail("[Errno 21] Is a directory: 'deposits.json'") /\ file' = file
           ELSE IF file.kind = "notjson"
           THEN fail("Expecting value: line 1 column 1 (char 0)") /\ file' = file
           ELSE IF file.kind = "scalar" /\ file.entries[1].t # "str"
           THEN fail("'" \o file.entries[1].t \o "' object is not iterable") /\ file' = file
           ELSE IF file.kind = "scalar"
           THEN fail("'str' object has no attribute 'append'") /\ file' = file
           ELSE IF file.kind = "dict"
           THEN fail("'dict' object has no attribute 'append'") /\ file' = file
           ELSE IF IsDuplicate(data, entry)
           THEN fail(DuplicateDeposit) /\ file' = file
           ELSE IF \E k \in DepositKeys : ~Serializable(entry[k])
           THEN fail(NotSerializable(entry)) /\ file' = PartialFile
           ELSE IF disk = "full"
           THEN fail("[Errno 28] No space left on device") /\ file' = PartialFile
           ELSE /\ Len(data) < MaxEntries
                /\ file' = ListFile([i \in 1..Len(data) |-> DumpEntry(data[i])]
                                     \o <<DumpEntry(entry)>>)
                /\ last' = Call(op, <<>>)
    /\ UNCHANGED <<ad, tr, log, balance, writers>>

\* ad.save_to_file(file_path) on a device that takes the write
save_to_file == SaveToFile("ok")


---------------------------------------------------------------------------
(* One caller with one deposit reference and the deposits file *)

Timestamps == 1..MaxTime

ValidIban == StrV(<<"E", "S">> \o Rep("1", IbanLength - 2))

ShortIban == StrV(<<"E", "S">> \o Rep("1", IbanLength - 3))

LifeIbans == {ValidIban, ShortIban}

LifeAmounts == {FloatV(100000), FloatV(5000)}

LifeDates == {FloatV(t * 1000) : t \in Timestamps}

NoCall == Call("", <<>>)

\* no balance file, and no process saving concurrently
NoBalance == [name |-> <<>>, data |-> <<>>]

NoWriters == <<>>

Init ==
    /\ ad = NoObject
    /\ tr = NoObject
    /\ file \in {Absent, ListFile(<<>>), NotJson, DictFile}
    /\ last = NoCall
    /\ log = Absent
    /\ balance = NoBalance
    /\ writers = NoWriters

Next ==
    \/ \E i \in LifeIbans, a \in LifeAmounts, t \in Timestamps : NewDeposit(i, a, t)
    \/ DelDeposit
    \/ \E v \in LifeIbans : SetToIban(v)
    \/ \E v \in LifeAmounts : SetDepositAmount(v)
    \/ \E v \in LifeDates : SetDepositDate(v)
    \/ save_to_file

Spec == Init /\ [][Next]_vars


---------------------------------------------------------------------------
(* C1: from an absent or empty deposits file a save_to_file succeeds and    *)
(* leaves exactly one entry; a save_to_file that follows a successful       *)
(* save_to_file of the same record with no call in between raises           *)
(* AccountManagementException carrying the duplicate message, and leaves    *)
(* the file as it was, so the file still holds that one entry.              *)
C1_SaveTwice ==
    [][save_to_file =>
        /\ file \in {Absent, ListFile(<<>>)} =>
              /\ last' = Call("save_to_file", <<>>)
              /\ file'.kind = "list"
              /\ Len(file'.entries) = 1
        /\ last = Call("save_to_file", <<>>) =>
              /\ last'.result = "raise"
              /\ last'.exc = AME
              /\ last'.msg \in {DuplicateDeposit, ErrorSaving(DuplicateDeposit)}
              /\ file' = file]_vars

\* the second save of an unchanged record was rejected, one entry in the file
C1_Witness ==
    /\ last.op = "save_to_file"
    /\ last.result = "raise"
    /\ last.msg = ErrorSaving(DuplicateDeposit)
    /\ file.kind = "list"
    /\ Len(file.entries) = 1
    /\ ad # NoObject
    /\ LoadEntry(file.entries[1]) = to_json(ad)


---------------------------------------------------------------------------
(* AccountDeposit construction over identifiers of every length up to      *)
(* MaxIbanLen and amounts around the bounds of the range                    *)

Prefixes == {<<"E", "S">>, <<"F", "R">>, <<"e", "s">>, <<"S", "E">>, <<"X", "E", "S">>}

StrIbans == {StrV(SubSeq(p \o Rep("1", MaxIbanLen), 1, k)) :
                 p \in Prefixes, k \in 0..MaxIbanLen}

NonStrIbans == {IntV(123456789), FloatV(24000), BoolV(TRUE), None}

IbanInputs == StrIbans \cup NonStrIbans

FloatAmounts ==
    {FloatV(m) : m \in ((MinAmount - AmountSpread)..(MinAmount + AmountSpread))
                       \cup ((MaxAmount - AmountSpread)..(MaxAmount + AmountSpread))
                       \cup ((10 * MinAmount)..(10 * MinAmount + AmountSpread))
                       \cup {0, -MinAmount, -MinAmount - 1}}
    \cup {NaN, Inf}

NonFloatAmounts ==
    {IntV(10), IntV(100), IntV(10000), IntV(9), BoolV(TRUE), None,
     StrV(<<"1", "0", "0", ".", "0", "0">>), StrV(<<"a", "b", "c">>)}

AmountInputs == FloatAmounts \cup NonFloatAmounts

InitNew ==
    /\ ad = NoObject
    /\ tr = NoObject
    /\ file = Absent
    /\ last = NoCall
    /\ log = Absent
    /\ balance = NoBalance
    /\ writers = NoWriters

\* each run is one construction, and the end of the object it made
NextNew ==
    \/ /\ last = NoCall
       /\ \E i \in IbanInputs, a \in AmountInputs, t \in Timestamps : NewDeposit(i, a, t)
    \/ DelDeposit

SpecNew == InitNew /\ [][NextNew]_vars

\* what the rules of construction say of an identifier and of an amount
IsIdentifier(v) == v.t = "str" /\ Len(v.s) = 24 /\ SubSeq(v.s, 1, 2) = <<"E", "S">>

IsFloating(v) == v.t = "float"

InAmountRange(v) == v.t = "float" /\ v.s = <<>> /\ v.n >= 10000 /\ v.n <= 10000000

\* a number of thousandths with no digit in the third place
AtMostTwoDecimals(v) == v.t = "float" /\ v.s = <<>> /\ v.n % 10 = 0

(* C4: with a valid destination identifier, construction succeeds iff the   *)
(* amount is a float, lies in [10.00, 10000.00] and has at most 2           *)
(* fractional digits; a non-float amount fails with the type message, a     *)
(* float out of the range with the range message, and a float in the range  *)
(* with more than 2 fractional digits with the precision message.           *)
C4_AmountContract ==
    (last.op = "AccountDeposit" /\ IsIdentifier(last.args[1])) =>
        LET a == last.args[2]
        IN  /\ last.result = "ok" <=>
                  (IsFloating(a) /\ InAmountRange(a) /\ AtMostTwoDecimals(a))
            /\ ~IsFloating(a) =>
                  last.msg = "deposit_amount must be a float."
            /\ (IsFloating(a) /\ ~InAmountRange(a)) =>
                  last.msg = "deposit_amount must be between 10.00 and 10000.00."
            /\ (InAmountRange(a) /\ ~AtMostTwoDecimals(a)) =>
                  last.msg = "deposit_amount must have at most 2 decimal places."
            /\ last.result = "raise" => last.exc = AME

\* a deposit of exactly 10000.00 was constructed
C4_Witness ==
    /\ last = Call("AccountDeposit", <<ValidIban, FloatV(MaxAmount)>>)
    /\ ad # NoObject
    /\ ad.deposit_amount = FloatV(MaxAmount)

\* the rules of construction in their order, each as what it forbids
RuleViolated(k, iban, amount) ==
    CASE k = 1 -> iban.t # "str"
      [] k = 2 -> ~(iban.t = "str" /\ Len(iban.s) = 24)
      [] k = 3 -> ~(iban.t = "str" /\ Len(iban.s) >= 2 /\ SubSeq(iban.s, 1, 2) = <<"E", "S">>)
      [] k = 4 -> ~IsFloating(amount)
      [] k = 5 -> ~InAmountRange(amount)
      [] OTHER -> ~AtMostTwoDecimals(amount)

RuleMessage ==
    <<"to_iban must be a string.",
      "to_iban must be exactly 24 characters.",
      "to_iban must start with 'ES'.",
      "deposit_amount must be a float.",
      "deposit_amount must be between 10.00 and 10000.00.",
      "deposit_amount must have at most 2 decimal places.">>

(* C5: construction raises the error of the first violated rule in the      *)
(* order identifier type, identifier length, identifier prefix, amount      *)
(* type, amount range, amount precision, whatever later rules are violated  *)
(* too, and succeeds when no rule is violated.                              *)
C5_FirstViolatedRule ==
    last.op = "AccountDeposit" =>
        LET violated == {k \in 1..6 : RuleViolated(k, last.args[1], last.args[2])}
        IN  IF violated = {} THEN last.result = "ok"
            ELSE /\ last.result = "raise"
                 /\ last.exc = AME
                 /\ last.msg = RuleMessage[CHOOSE k \in violated :
                                               \A j \in violated : k <= j]

\* wrong length, wrong prefix and an amount of the wrong type: the length is reported
C5_Witness ==
    /\ last.op = "AccountDeposit"
    /\ last.args[1].t = "str"
    /\ RuleViolated(2, last.args[1], last.args[2])
    /\ RuleViolated(3, last.args[1], last.args[2])
    /\ RuleViolated(4, last.args[1], last.args[2])
    /\ last.msg = "to_iban must be exactly 24 characters."


---------------------------------------------------------------------------
(* TransferRequest *)

Whitespace == {" ", "\t", "\n", "\r"}

AsciiLetters ==
    {"a", "b", "c", "d", "e", "f", "g", "h", "i", "j", "k", "l", "m",
     "n", "o", "p", "q", "r", "s", "t", "u", "v", "w", "x", "y", "z",
     "A", "B", "C", "D", "E", "F", "G", "H", "I", "J", "K", "L", "M",
     "N", "O", "P", "Q", "R", "S", "T", "U", "V", "W", "X", "Y", "Z"}

\* s.strip()
RECURSIVE strip(_)
strip(s) ==
    IF Len(s) = 0 THEN s
    ELSE IF s[1] \in Whitespace THEN strip(SubSeq(s, 2, Len(s)))
    ELSE IF s[Len(s)] \in Whitespace THEN strip(SubSeq(s, 1, Len(s) - 1))
    ELSE s

\* part.isalpha(), over the letters of the model's texts
isalpha(s) == Len(s) > 0 /\ \A i \in 1..Len(s) : s[i] \in AsciiLetters

\* the parts of a split, joined
RECURSIVE Concat(_)
Concat(parts) == IF Len(parts) = 0 THEN <<>> ELSE Head(parts) \o Concat(Tail(parts))

\* int(text): [ok, n], ok FALSE for the text int() raises ValueError on.
\* Blanks around the number, a sign, and single underscores between digits
\* are read as Python reads them.
int(text) ==
    LET t == strip(text)
        signed == Len(t) > 0 /\ t[1] \in {"+", "-"}
        body == IF signed THEN SubSeq(t, 2, Len(t)) ELSE t
        groups == split(body, "_")
        ok == \A i \in 1..Len(groups) :
                  Len(groups[i]) > 0 /\ \A j \in 1..Len(groups[i]) : IsDigit(groups[i][j])
        n == IF ok THEN ParseNat(Concat(groups)) ELSE 0
    IN  [ok |-> ok, n |-> IF signed /\ t[1] = "-" THEN -n ELSE n]

\* f"{x:.2f}" of a finite float no less than 0: the value rounded to
\* hundredths, always with two digits after the point
Format2f(v) ==
    LET h == (v.n + 5) \div 10
    IN  NatStr(h \div 100) \o <<".">> \o <<Digits[((h \div 10) % 10) + 1], Digits[(h % 10) + 1]>>

TransferMinAmount == 10000
TransferMaxAmount == 10000000
MinYear == 2025
EndYear == 2051

\* TransferRequest._validate_iban
ValidateIban(iban, name) ==
    IF ~isinstance(iban, "str") THEN name \o " must be a string."
    ELSE IF Len(iban.s) # IbanLength THEN name \o " must be exactly 24 characters."
    ELSE IF ~StartsWithES(iban.s) THEN name \o " must start with 'ES'."
    ELSE OK

\* ["REGULAR", "URGENT", "IMMEDIATE"], the words of the property's docstring
TransferTypesOfDocstring == {<<"R", "E", "G", "U", "L", "A", "R">>, <<"U", "R", "G", "E", "N", "T">>, <<"I", "M", "M", "E", "D", "I", "A", "T", "E">>}

\* ["ORDINARY", "URGENT", "IMMEDIATE"]
TransferTypes == {<<"O", "R", "D", "I", "N", "A", "R", "Y">>, <<"U", "R", "G", "E", "N", "T">>, <<"I", "M", "M", "E", "D", "I", "A", "T", "E">>}

\* TransferRequest._validate_transfer_type
ValidateTransferType(transfer_type) ==
    IF ~isinstance(transfer_type, "str") THEN "transfer_type must be a string."
    ELSE IF transfer_type.s \notin TransferTypes
         THEN "transfer_type must be ORDINARY, URGENT, or IMMEDIATE"
    ELSE OK

\* TransferRequest._validate_transfer_concept
ValidateTransferConcept(transfer_concept) ==
    IF ~isinstance(transfer_concept, "str") THEN "transfer_concept must be a string."
    ELSE LET concept == strip(transfer_concept.s)
             parts == split(concept, " ")
         IN  IF Len(parts) # 2 THEN "transfer_concept must contain exactly two words."
             ELSE IF ~\A i \in 1..Len(parts) : isalpha(parts[i])
                  THEN "transfer_concept must contain only letters."
             ELSE IF ~(10 <= Len(concept) /\ Len(concept) <= 30)
                  THEN "transfer_concept must be 10 to 30 characters long."
             ELSE OK

\* 2025 <= year <= 2051, the end of the range let in
YearInRangeInclusive(year) == MinYear <= year /\ year <= EndYear

\* 2025 <= year < 2051
YearInRange(year) == MinYear <= year /\ year < EndYear

\* TransferRequest._validate_transfer_date
ValidateTransferDate(transfer_date) ==
    IF ~isinstance(transfer_date, "str") THEN "transfer_date must be a string."
    ELSE LET texts == split(transfer_date.s, "/")
             nums == [i \in 1..Len(texts) |-> int(texts[i])]
         IN  IF Len(texts) # 3 \/ \E i \in 1..Len(texts) : ~nums[i].ok
             THEN "transfer_date must be in DD/MM/YYYY format."
             ELSE IF ~(1 <= nums[1].n /\ nums[1].n <= 31)
                  THEN "Day must be between 1 and 31."
             ELSE IF ~(1 <= nums[2].n /\ nums[2].n <= 12)
                  THEN "Month must be between 1 and 12."
             ELSE IF ~YearInRange(nums[3].n)
                  THEN "Year must be between 2025 and 2050."
             ELSE OK

\* TransferRequest._validate_transfer_amount
ValidateTransferAmount(transfer_amount) ==
    IF ~isinstance(transfer_amount, "float") THEN "transfer_amount must be a float."
    ELSE IF ~Between(TransferMinAmount, transfer_amount, TransferMaxAmount)
         THEN "transfer_amount must be between 10.00 and 10000.00."
    ELSE IF Len(split(Format2f(transfer_amount), ".")[2]) > 2
         THEN "transfer_amount must have at most 2 decimal places."
    ELSE OK

\* the first message that is not OK
RECURSIVE FirstError(_)
FirstError(msgs) ==
    IF Len(msgs) = 0 THEN OK
    ELSE IF Head(msgs) # OK THEN Head(msgs)
    ELSE FirstError(Tail(msgs))

\* TransferRequest.validate with the date validated before the concept
TransferValidateDateFirst(o) ==
    FirstError(<<ValidateIban(o.from_iban, "from_iban"),
                 ValidateIban(o.to_iban, "to_iban"),
                 ValidateTransferType(o.transfer_type),
                 ValidateTransferDate(o.transfer_date),
                 ValidateTransferConcept(o.transfer_concept),
                 ValidateTransferAmount(o.transfer_amount)>>)

\* TransferRequest.validate: the message of the exception raised, or OK
TransferValidate(o) ==
    FirstError(<<ValidateIban(o.from_iban, "from_iban"),
                 ValidateIban(o.to_iban, "to_iban"),
                 ValidateTransferType(o.transfer_type),
                 ValidateTransferConcept(o.transfer_concept),
                 ValidateTransferDate(o.transfer_date),
                 ValidateTransferAmount(o.transfer_amount)>>)

\* the fields __init__ sets before it validates: transfer_details.get(key)
\* is None for a key the dict lacks; now is the clock's reading
TransferFields(from_iban, to_iban, transfer_details, now) ==
    [from_iban |-> from_iban,
     to_iban |-> to_iban,
     transfer_type |-> transfer_details.transfer_type,
     transfer_concept |-> transfer_details.transfer_concept,
     transfer_date |-> transfer_details.transfer_date,
     transfer_amount |-> transfer_details.transfer_amount,
     time_stamp |-> FloatV(now * 1000)]

\* tr = TransferRequest(from_iban, to_iban, transfer_details)
NewTransfer(from_iban, to_iban, transfer_details, now) ==
    /\ tr = NoObject
    /\ LET o == TransferFields(from_iban, to_iban, transfer_details, now)
           e == TransferValidate(o)
           args == <<from_iban, to_iban, transfer_details.transfer_type,
                     transfer_details.transfer_concept, transfer_details.transfer_date,
                     transfer_details.transfer_amount>>
       IN  IF e = OK
           THEN /\ tr' = o
                /\ last' = Call("TransferRequest", args)
           ELSE /\ tr' = tr
                /\ last' = Raise("TransferRequest", args, AME, e)
    /\ UNCHANGED <<ad, file, log, balance, writers>>

\* the reference goes out of scope
DelTransfer ==
    /\ tr # NoObject
    /\ tr' = NoObject
    /\ UNCHANGED <<ad, file, last, log, balance, writers>>

\* the methods and properties the class TransferRequest defines
TransferAttributes ==
    {"__init__", "__str__", "to_json", "validate", "_validate_iban",
     "_validate_transfer_type", "_validate_transfer_concept",
     "_validate_transfer_date", "_validate_transfer_amount", "from_iban", "to_iban",
     "transfer_type", "transfer_amount", "transfer_concept", "transfer_date",
     "time_stamp", "transfer_code"}

\* tr.save_to_file(file_path): the class defines no save_to_file, so the
\* lookup of the attribute raises and the file is not touched
TransferSaveToFile ==
    /\ tr # NoObject
    /\ "save_to_file" \notin TransferAttributes
    /\ last' = Raise("TransferRequest.save_to_file", <<>>, "AttributeError",
                     "'TransferRequest' object has no attribute 'save_to_file'")
    /\ UNCHANGED <<ad, tr, file, log, balance, writers>>


---------------------------------------------------------------------------
(* TransferRequest construction: each field swept over its own inputs with  *)
(* the other fields valid, and a product of valid and invalid values of     *)
(* all six fields                                                            *)

ValidIban2 == StrV(<<"E", "S">> \o Rep("2", IbanLength - 2))

ValidType == StrV(<<"O", "R", "D", "I", "N", "A", "R", "Y">>)

ValidConcept == StrV(<<"P", "a", "y", "m", "e", "n", "t", " ", "s", "e", "r", "v", "i", "c", "e", "s">>)

ValidDate == StrV(<<"0", "7", "/", "0", "1", "/", "2", "0", "2", "5">>)

ValidTransferAmount == FloatV(40000)

Details(type, concept, date, amount) ==
    [transfer_type |-> type, transfer_concept |-> concept,
     transfer_date |-> date, transfer_amount |-> amount]

TypeInputs ==
    {StrV(w) : w \in TransferTypes \cup TransferTypesOfDocstring
                     \cup {<<"E", "X", "P", "R", "E", "S", "S">>, <<"o", "r", "d", "i", "n", "a", "r", "y">>, <<"U", "R", "G", "E", "N", "T", " ">>, <<>>}}
    \cup {IntV(123), BoolV(TRUE), None}

Words == {Rep("a", k) : k \in 0..MaxWordLen}
         \cup {Rep("a", 4) \o <<"1">> \o Rep("a", 4), <<"P", "a", "y">>, <<"a", "-", "b", "c", "d">>}

Separators == {<<" ">>, <<" ", " ">>, <<"\t">>, <<"-">>, <<>>}

ConceptTexts ==
    {w1 \o sep \o w2 : w1 \in Words, w2 \in Words, sep \in Separators}
    \cup {<<" ">> \o w1 \o <<" ">> \o w2 \o <<" ", "\n">> : w1 \in Words, w2 \in Words}
    \cup {w1 \o <<" ">> \o w2 \o <<" ">> \o w1 : w1 \in {Rep("a", 3), Rep("a", 4)},
                                                 w2 \in {Rep("b", 2), Rep("b", 3)}}

ConceptInputs == {StrV(c) : c \in ConceptTexts} \cup {IntV(12345), None}

Padded2(i) == IF i < 10 THEN <<"0">> \o NatStr(i) ELSE NatStr(i)

OddTexts == {<<>>, <<"a">>, <<"-", "1">>, <<"+", "7">>, <<" ", "7">>, <<"7", " ">>,
             <<"1", "_", "0">>, <<"_", "7">>, <<"7", "_">>, <<"1", "_", "_", "0">>,
             <<"+", " ", "7">>, <<"7", ".", "0">>, <<"0", "x", "7">>, <<"+">>}

DayTexts == {NatStr(i) : i \in 0..(31 + DateSpread)}
            \cup {Padded2(i) : i \in 0..9} \cup OddTexts

MonthTexts == {NatStr(i) : i \in 0..(12 + DateSpread)}
              \cup {Padded2(i) : i \in 0..9} \cup OddTexts

YearTexts == {NatStr(i) : i \in (MinYear - DateSpread)..(EndYear + DateSpread)}
             \cup {<<"2", "5">>, <<"0", "2", "0", "2", "5">>, <<"-", "2", "0", "2", "5">>}
             \cup OddTexts

Slashed(d, m, y) == d \o <<"/">> \o m \o <<"/">> \o y

FewDays == {<<"0", "7">>, <<"3", "1">>}

FewMonths == {<<"0", "1">>, <<"0", "2">>}

FewYears == {<<"2", "0", "2", "5">>, <<"2", "0", "5", "0">>}

DateTexts ==
    {Slashed(d, m, y) : d \in DayTexts, m \in FewMonths, y \in FewYears}
    \cup {Slashed(d, m, y) : d \in FewDays, m \in MonthTexts, y \in FewYears}
    \cup {Slashed(d, m, y) : d \in FewDays, m \in FewMonths, y \in YearTexts}
    \cup {d \o <<"/">> \o m : d \in FewDays, m \in FewMonths}
    \cup {Slashed(d, m, y) \o <<"/">> \o x :
              d \in FewDays, m \in FewMonths, y \in FewYears, x \in {<<>>, <<"1">>}}
    \cup {<<>>, <<"2", "0", "2", "5", "-", "0", "1", "-", "0", "7">>, <<"0", "7", ".", "0", "1", ".", "2", "0", "2", "5">>, <<"0", "7">>}

DateInputs == {StrV(d) : d \in DateTexts} \cup {IntV(20250325), None}

SweepInputs ==
    {<<i, ValidIban2, ValidType, ValidConcept, ValidDate, ValidTransferAmount>> :
         i \in IbanInputs}
    \cup {<<ValidIban, i, ValidType, ValidConcept, ValidDate, ValidTransferAmount>> :
              i \in IbanInputs}
    \cup {<<ValidIban, ValidIban2, k, ValidConcept, ValidDate, ValidTransferAmount>> :
              k \in TypeInputs}
    \cup {<<ValidIban, ValidIban2, ValidType, c, ValidDate, ValidTransferAmount>> :
              c \in ConceptInputs}
    \cup {<<ValidIban, ValidIban2, ValidType, ValidConcept, d, ValidTransferAmount>> :
              d \in DateInputs}
    \cup {<<ValidIban, ValidIban2, ValidType, ValidConcept, ValidDate, a>> :
              a \in AmountInputs}

ProductInputs ==
    {ValidIban, ShortIban, StrV(<<"F", "R">> \o Rep("1", IbanLength - 2)), IntV(123456789)}
    \X {ValidIban2, ShortIban, StrV(<<"F", "R">> \o Rep("1", IbanLength - 1)), None}
    \X {ValidType, StrV(<<"E", "X", "P", "R", "E", "S", "S">>), IntV(123)}
    \X {ValidConcept, StrV(<<"P", "a", "y", "m", "e", "n", "t">>), StrV(<<"P", "a", "y", "m", "e", "n", "t", " ", "1", "2", "3">>), StrV(<<"H", "e", "y", " ", "T", "h", "e", "r", "e">>),
        StrV(<<"P", "a", "y", "m", "e", "n", "t", " ", " ", "s", "e", "r", "v", "i", "c", "e", "s">>), IntV(12345)}
    \X {ValidDate, StrV(<<"2", "0", "2", "5", "-", "0", "1", "-", "0", "7">>), StrV(<<"0", "0", "/", "0", "1", "/", "2", "0", "2", "5">>), StrV(<<"0", "7", "/", "1", "3", "/", "2", "0", "2", "5">>), StrV(<<"0", "7", "/", "0", "1", "/", "2", "0", "5", "1">>),
        IntV(20250325)}
    \X {ValidTransferAmount, FloatV(9990), FloatV(40123), FloatV(10000010),
        StrV(<<"1", "0", "0", ".", "0", "0">>)}

TransferInputs == SweepInputs \cup ProductInputs

\* each run is one construction, and what the caller then does with the object
NextTransfer ==
    \/ /\ last = NoCall
       /\ \E i \in TransferInputs, t \in Timestamps :
              NewTransfer(i[1], i[2], Details(i[3], i[4], i[5], i[6]), t)
    \/ TransferSaveToFile
    \/ DelTransfer

SpecTransfer == InitNew /\ [][NextTransfer]_vars


---------------------------------------------------------------------------
(* What the rules of a transfer say, stated without the validators *)

ValidArgs == <<ValidIban, ValidIban2, ValidType, ValidConcept, ValidDate,
               ValidTransferAmount>>

\* the last call constructed a transfer whose fields other than k are valid
OthersValid(k) ==
    /\ last.op = "TransferRequest"
    /\ \A j \in (1..6) \ {k} : last.args[j] = ValidArgs[j]

IsKind(v) == v.t = "str" /\ v.s \in {<<"O", "R", "D", "I", "N", "A", "R", "Y">>, <<"U", "R", "G", "E", "N", "T">>, <<"I", "M", "M", "E", "D", "I", "A", "T", "E">>}

IsBlank(c) == c \in {" ", "\t", "\n", "\r"}

\* the whitespace-separated tokens of a text
RECURSIVE Tokens(_)
Tokens(s) ==
    IF \A i \in 1..Len(s) : IsBlank(s[i]) THEN <<>>
    ELSE LET a == CHOOSE i \in 1..Len(s) :
                      ~IsBlank(s[i]) /\ \A j \in 1..(i - 1) : IsBlank(s[j])
             b == CHOOSE i \in a..Len(s) :
                      /\ \A j \in a..i : ~IsBlank(s[j])
                      /\ (i = Len(s) \/ IsBlank(s[i + 1]))
         IN  <<SubSeq(s, a, b)>> \o Tokens(SubSeq(s, b + 1, Len(s)))

\* the length of a text without the blanks at its ends
TrimmedLen(s) ==
    LET inked == {i \in 1..Len(s) : ~IsBlank(s[i])}
    IN  IF inked = {} THEN 0
        ELSE (CHOOSE i \in inked : \A j \in inked : j <= i)
             - (CHOOSE i \in inked : \A j \in inked : i <= j) + 1

IsAlphabetic(w) == Len(w) > 0 /\ \A i \in 1..Len(w) : w[i] \in AsciiLetters

ConceptAccepted(v) ==
    /\ v.t = "str"
    /\ Len(Tokens(v.s)) = 2
    /\ \A i \in 1..Len(Tokens(v.s)) : IsAlphabetic(Tokens(v.s)[i])
    /\ TrimmedLen(v.s) >= 10
    /\ TrimmedLen(v.s) <= 30

\* a text int() reads: blanks, then an optional sign, then digits with single
\* underscores between them, then blanks
IsIntegerText(c) ==
    \E i, j \in 1..Len(c) :
        /\ i <= j
        /\ \A k \in 1..(i - 1) : IsBlank(c[k])
        /\ \A k \in (j + 1)..Len(c) : IsBlank(c[k])
        /\ IsDigit(c[j])
        /\ \/ IsDigit(c[i])
           \/ c[i] \in {"+", "-"} /\ i < j /\ IsDigit(c[i + 1])
        /\ \A k \in (i + 1)..j :
               \/ IsDigit(c[k])
               \/ c[k] = "_" /\ IsDigit(c[k - 1]) /\ IsDigit(c[k + 1])

\* the number an integer text stands for
IntegerValue(c) ==
    LET n == ParseNat(SelectSeq(c, IsDigit))
    IN  IF \E i \in 1..Len(c) : c[i] = "-" THEN -n ELSE n

Slashes(s) == {i \in 1..Len(s) : s[i] = "/"}

\* the three components of a text with two slashes
Component(s, k) ==
    LET p == CHOOSE i \in Slashes(s) : \A j \in Slashes(s) : i <= j
        q == CHOOSE i \in Slashes(s) : \A j \in Slashes(s) : j <= i
    IN  CASE k = 1 -> SubSeq(s, 1, p - 1)
          [] k = 2 -> SubSeq(s, p + 1, q - 1)
          [] OTHER -> SubSeq(s, q + 1, Len(s))

ThreeIntegers(s) ==
    /\ Cardinality(Slashes(s)) = 2
    /\ \A k \in 1..3 : IsIntegerText(Component(s, k))

DateAccepted(v) ==
    /\ v.t = "str"
    /\ ThreeIntegers(v.s)
    /\ IntegerValue(Component(v.s, 1)) \in 1..31
    /\ IntegerValue(Component(v.s, 2)) \in 1..12
    /\ IntegerValue(Component(v.s, 3)) \in 2025..2050

---------------------------------------------------------------------------
(* C2: save_to_file of a valid transfer ends in one of two ways: it         *)
(* succeeds and the file holds the transfer's entry, or, for a second save  *)
(* of the unmodified transfer, it raises AccountManagementException with    *)
(* "Duplicate transfer detected." and the file keeps its entries.           *)
C2_TransferPersistence ==
    last.op = "TransferRequest.save_to_file" =>
        /\ file.kind = "list"
        /\ Len(file.entries) >= 1
        /\ \/ last.result = "ok"
           \/ /\ last.result = "raise"
              /\ last.exc = AME
              /\ last.msg = "Duplicate transfer detected."

(* C3: with the other fields valid, a float amount within [10.00, 10000.00] *)
(* that has more than 2 digits after the point makes construction fail      *)
(* with "transfer_amount must have at most 2 decimal places.".              *)
C3_TransferPrecision ==
    (OthersValid(6) /\ InAmountRange(last.args[6]) /\ ~AtMostTwoDecimals(last.args[6])) =>
        /\ last.result = "raise"
        /\ last.exc = AME
        /\ last.msg = "transfer_amount must have at most 2 decimal places."

\* the check of field k alone, by the validator of that field
FieldError(k, args) ==
    CASE k = 1 -> ValidateIban(args[1], "from_iban")
      [] k = 2 -> ValidateIban(args[2], "to_iban")
      [] k = 3 -> ValidateTransferType(args[3])
      [] k = 4 -> ValidateTransferConcept(args[4])
      [] k = 5 -> ValidateTransferDate(args[5])
      [] OTHER -> ValidateTransferAmount(args[6])

\* the messages of the rules, field by field in the order of the claim
FieldMessages ==
    <<{"from_iban must be a string.", "from_iban must be exactly 24 characters.",
       "from_iban must start with 'ES'."},
      {"to_iban must be a string.", "to_iban must be exactly 24 characters.",
       "to_iban must start with 'ES'."},
      {"transfer_type must be a string.",
       "transfer_type must be ORDINARY, URGENT, or IMMEDIATE"},
      {"transfer_concept must be a string.",
       "transfer_concept must contain exactly two words.",
       "transfer_concept must contain only letters.",
       "transfer_concept must be 10 to 30 characters long."},
      {"transfer_date must be a string.", "transfer_date must be in DD/MM/YYYY format.",
       "Day must be between 1 and 31.", "Month must be between 1 and 12.",
       "Year must be between 2025 and 2050."},
      {"transfer_amount must be a float.",
       "transfer_amount must be between 10.00 and 10000.00.",
       "transfer_amount must have at most 2 decimal places."}>>

(* C6: construction of a transfer succeeds when the check of every field    *)
(* passes, and otherwise raises a message of the earliest field, in the     *)
(* order source identifier, destination identifier, kind, concept, date,    *)
(* amount, whose own check fails, whatever later fields fail too; the       *)
(* twenty messages of the rules are pairwise distinct.                      *)
C6_EarliestField ==
    last.op = "TransferRequest" =>
        LET bad == {k \in 1..6 : FieldError(k, last.args) # OK}
        IN  /\ IF bad = {} THEN last.result = "ok"
               ELSE /\ last.result = "raise"
                    /\ last.exc = AME
                    /\ last.msg \in FieldMessages[CHOOSE k \in bad : \A j \in bad : k <= j]
                    /\ \A j \in 1..6 :
                           last.msg \in FieldMessages[j] =>
                               j = CHOOSE k \in bad : \A i \in bad : k <= i
            /\ Cardinality(UNION {FieldMessages[k] : k \in 1..6}) = 20

\* concept, date and amount fail their checks together: the concept is reported
C6_Witness ==
    /\ last.op = "TransferRequest"
    /\ {k \in 1..6 : FieldError(k, last.args) # OK} = {4, 5, 6}
    /\ last.result = "raise"
    /\ last.msg = "transfer_concept must contain exactly two words."
    /\ tr = NoObject

(* C8: with the other fields valid, construction succeeds iff the concept   *)
(* is a string whose trimmed form has exactly two whitespace-separated      *)
(* tokens, each of letters only, and a trimmed length from 10 to 30.        *)
C8_ConceptContract ==
    OthersValid(4) => (last.result = "ok" <=> ConceptAccepted(last.args[4]))

(* C9: with the other fields valid, construction succeeds iff the date is   *)
(* a string of exactly three slash-separated integer components with day    *)
(* in 1..31, month in 1..12 and year in 2025..2050, with no check of the    *)
(* day against the month; a string with fewer or more components or with a  *)
(* component that is no integer fails with the DD/MM/YYYY format error.     *)
C9_DateContract ==
    OthersValid(5) =>
        LET d == last.args[5]
        IN  /\ last.result = "ok" <=> DateAccepted(d)
            /\ (d.t = "str" /\ ~ThreeIntegers(d.s)) =>
                   /\ last.result = "raise"
                   /\ last.exc = AME
                   /\ last.msg = "transfer_date must be in DD/MM/YYYY format."

\* the transfer dated 31/02/2025 was constructed
C9_Witness ==
    /\ OthersValid(5)
    /\ last.args[5] = StrV(<<"3", "1", "/", "0", "2", "/", "2", "0", "2", "5">>)
    /\ last.result = "ok"
    /\ tr # NoObject
    /\ tr.transfer_date = StrV(<<"3", "1", "/", "0", "2", "/", "2", "0", "2", "5">>)

---------------------------------------------------------------------------
(* AccountManager.validate_iban *)

\* validate_iban without its check of the length
validate_iban_any_length(iban) ==
    IF ~isinstance(iban, "str") THEN FALSE
    ELSE IF ~StartsWithES(iban.s) THEN FALSE
    ELSE TRUE

\* AccountManager.validate_iban
validate_iban(iban) ==
    IF ~isinstance(iban, "str") THEN FALSE
    ELSE IF ~StartsWithES(iban.s) THEN FALSE
    ELSE IF Len(iban.s) # IbanLength THEN FALSE
    ELSE TRUE

\* AccountManager.validate_iban(iban), a static method
CallValidateIban(iban) ==
    /\ last' = Return("validate_iban", <<iban>>, BoolV(validate_iban(iban)))
    /\ UNCHANGED <<ad, tr, file, log, balance, writers>>

NextIban == \E i \in IbanInputs : CallValidateIban(i)

SpecIban == InitNew /\ [][NextIban]_vars

(* C7: validate_iban never raises; it returns True iff the value is a       *)
(* string of length exactly 24 that starts with "ES", and False for every   *)
(* other value: a non-string, a string of another length or prefix.         *)
C7_ValidateIban ==
    last.op = "validate_iban" =>
        /\ last.result = "ok"
        /\ last.ret \in {BoolV(TRUE), BoolV(FALSE)}
        /\ last.ret = BoolV(TRUE) <=> IsIdentifier(last.args[1])

\* a string of 24 characters with another prefix was refused
C7_Witness ==
    /\ last.op = "validate_iban"
    /\ last.args[1].t = "str"
    /\ Len(last.args[1].s) = 24
    /\ SubSeq(last.args[1].s, 1, 2) = <<"F", "R">>
    /\ last.ret = BoolV(FALSE)

---------------------------------------------------------------------------
(* The signature an AccountDeposit exposes, read between setter calls *)

\* ad.deposit_signature, the property read
GetDepositSignature ==
    /\ ad # NoObject
    /\ last' = Return("deposit_signature", <<>>, deposit_signature(ad))
    /\ UNCHANGED <<ad, tr, file, log, balance, writers>>

\* ad.to_json()
CallToJson ==
    /\ ad # NoObject
    /\ last' = Return("to_json", <<>>, to_json(ad))
    /\ UNCHANGED <<ad, tr, file, log, balance, writers>>

\* the setters validate nothing: any value can be stored
SigIbans == {ValidIban, ShortIban, IntV(5)}

SigAmounts == {FloatV(100000), FloatV(5000), StrV(<<"1", "0", "0", ".", "0">>), None}

SigDates == LifeDates \cup {StrV(<<"1", ".", "0">>), None}

NextSig ==
    \/ \E t \in Timestamps : NewDeposit(ValidIban, FloatV(100000), t)
    \/ \E v \in SigIbans : SetToIban(v)
    \/ \E v \in SigAmounts : SetDepositAmount(v)
    \/ \E v \in SigDates : SetDepositDate(v)
    \/ GetDepositSignature
    \/ CallToJson

SpecSig == InitNew /\ [][NextSig]_vars

\* the canonical string of a record: algorithm tag, type tag, identifier,
\* amount and timestamp in this order, each as its text
CanonicalString(alg, typ, iban, amount, date) ==
    <<"{", "a", "l", "g", ":">> \o PyStr(alg)
    \o <<",", "t", "y", "p", ":">> \o PyStr(typ)
    \o <<",", "i", "b", "a", "n", ":">> \o PyStr(iban)
    \o <<",", "a", "m", "o", "u", "n", "t", ":">> \o PyStr(amount)
    \o <<",", "d", "e", "p", "o", "s", "i", "t", "_", "d", "a", "t", "e", ":">>
    \o PyStr(date) \o <<"}">>

CurrentSignature ==
    StrV(sha256(CanonicalString(ad.alg, ad.typ, ad.to_iban, ad.deposit_amount,
                                ad.deposit_date)))

(* C11: whatever setters were called before, the signature read from        *)
(* deposit_signature, and the one inside to_json(), is the hash of the      *)
(* canonical string of the record's current algorithm tag, type tag,        *)
(* identifier, amount and timestamp, and to_json() carries those current    *)
(* fields; no value computed from earlier field values is exposed.          *)
C11_FreshSignature ==
    /\ last.op = "deposit_signature" => last.ret = CurrentSignature
    /\ last.op = "to_json" =>
           /\ last.ret.deposit_signature = CurrentSignature
           /\ last.ret.to_iban = ad.to_iban
           /\ last.ret.deposit_amount = ad.deposit_amount
           /\ last.ret.deposit_date = ad.deposit_date

\* the signature was read after the setters replaced all three fields
C11_Witness ==
    /\ last.op = "deposit_signature"
    /\ ad.to_iban = IntV(5)
    /\ ad.deposit_amount = None
    /\ ad.deposit_date = StrV(<<"1", ".", "0">>)
    /\ last.ret = StrV(sha256(CanonicalString(ad.alg, ad.typ, IntV(5), None,
                                              StrV(<<"1", ".", "0">>))))

---------------------------------------------------------------------------
(* The code a TransferRequest exposes, read between setter calls *)

\* the name an attribute self.__name has in self.__dict__
PrivateName(name) ==
    <<"_", "T", "r", "a", "n", "s", "f", "e", "r", "R", "e", "q", "u", "e",
      "s", "t", "_", "_">> \o name

\* one "key": value of json.dumps(self.__dict__)
Item(name, v) == <<"\"">> \o PrivateName(name) \o <<"\"", ":", " ">> \o JsonDumps(v)

\* __str__ with the time stamp left out of the text
TransferStrWithoutTimeStamp(o) ==
    <<"T", "r", "a", "n", "s", "f", "e", "r", ":", "{">>
    \o Item(<<"f", "r", "o", "m", "_", "i", "b", "a", "n">>, o.from_iban) \o <<",", " ">>
    \o Item(<<"t", "o", "_", "i", "b", "a", "n">>, o.to_iban) \o <<",", " ">>
    \o Item(<<"t", "r", "a", "n", "s", "f", "e", "r", "_", "t", "y", "p", "e">>,
            o.transfer_type) \o <<",", " ">>
    \o Item(<<"t", "r", "a", "n", "s", "f", "e", "r", "_", "c", "o", "n", "c", "e", "p", "t">>,
            o.transfer_concept) \o <<",", " ">>
    \o Item(<<"t", "r", "a", "n", "s", "f", "e", "r", "_", "d", "a", "t", "e">>,
            o.transfer_date) \o <<",", " ">>
    \o Item(<<"t", "r", "a", "n", "s", "f", "e", "r", "_", "a", "m", "o", "u", "n", "t">>,
            o.transfer_amount) \o <<"}">>

\* TransferRequest.__str__: "Transfer:" + json.dumps(self.__dict__), the
\* attributes in the order __init__ assigned them
TransferStr(o) ==
    <<"T", "r", "a", "n", "s", "f", "e", "r", ":", "{">>
    \o Item(<<"f", "r", "o", "m", "_", "i", "b", "a", "n">>, o.from_iban) \o <<",", " ">>
    \o Item(<<"t", "o", "_", "i", "b", "a", "n">>, o.to_iban) \o <<",", " ">>
    \o Item(<<"t", "r", "a", "n", "s", "f", "e", "r", "_", "t", "y", "p", "e">>,
            o.transfer_type) \o <<",", " ">>
    \o Item(<<"t", "r", "a", "n", "s", "f", "e", "r", "_", "c", "o", "n", "c", "e", "p", "t">>,
            o.transfer_concept) \o <<",", " ">>
    \o Item(<<"t", "r", "a", "n", "s", "f", "e", "r", "_", "d", "a", "t", "e">>,
            o.transfer_date) \o <<",", " ">>
    \o Item(<<"t", "r", "a", "n", "s", "f", "e", "r", "_", "a", "m", "o", "u", "n", "t">>,
            o.transfer_amount) \o <<",", " ">>
    \o Item(<<"t", "i", "m", "e", "_", "s", "t", "a", "m", "p">>, o.time_stamp) \o <<"}">>

\* hashlib.md5(text).hexdigest(): the digest stands for the text hashed
md5(text) == <<"md5">> \o text

\* TransferRequest.transfer_code
transfer_code(o) == StrV(md5(TransferStr(o)))

\* tr.transfer_code, the property read
GetTransferCode ==
    /\ tr # NoObject
    /\ last' = Return("transfer_code", <<>>, transfer_code(tr))
    /\ UNCHANGED <<ad, tr, file, log, balance, writers>>

\* tr.<name> = value, one of the six setters
SetTransferField(name, value) ==
    /\ tr # NoObject
    /\ tr' = [tr EXCEPT ![name] = value]
    /\ last' = Call(name \o ".setter", <<value>>)
    /\ UNCHANGED <<ad, file, log, balance, writers>>

SetFromIban(value) == SetTransferField("from_iban", value)

SetTransferToIban(value) == SetTransferField("to_iban", value)

SetTransferType(value) == SetTransferField("transfer_type", value)

SetTransferAmount(value) == SetTransferField("transfer_amount", value)

SetTransferConcept(value) == SetTransferField("transfer_concept", value)

SetTransferDate(value) == SetTransferField("transfer_date", value)

\* what json.dumps writes between the text of from_iban and the text of to_iban
Separator ==
    <<"\"", ",", " ", "\"">> \o PrivateName(<<"t", "o", "_", "i", "b", "a", "n">>)
    \o <<"\"", ":", " ", "\"">>

\* values for the setters, which validate nothing: strings holding quotes
\* among them, and the same number as a float, an int and a string
CodeFromIbans == {ValidIban, StrV(<<"a">>), StrV(<<"a">> \o Separator \o <<"b">>)}

CodeToIbans == {ValidIban2, StrV(<<"c">>), StrV(<<"b">> \o Separator \o <<"c">>)}

CodeTypes == {ValidType, None}

CodeConcepts == {ValidConcept, IntV(40)}

CodeDates == {ValidDate, StrV(<<"4", "0", ".", "0">>)}

CodeAmounts == {ValidTransferAmount, IntV(40), StrV(<<"4", "0", ".", "0">>)}

NextCode ==
    \/ \E t \in Timestamps :
           NewTransfer(ValidIban, ValidIban2,
                       Details(ValidType, ValidConcept, ValidDate, ValidTransferAmount), t)
    \/ DelTransfer
    \/ \E v \in CodeFromIbans : SetFromIban(v)
    \/ \E v \in CodeToIbans : SetTransferToIban(v)
    \/ \E v \in CodeTypes : SetTransferType(v)
    \/ \E v \in CodeAmounts : SetTransferAmount(v)
    \/ \E v \in CodeConcepts : SetTransferConcept(v)
    \/ \E v \in CodeDates : SetTransferDate(v)
    \/ GetTransferCode

SpecCode == InitNew /\ [][NextCode]_vars

\* the text hashed for a request with these seven fields
HashedInput(src, dst, kind, concept, date, amount, stamp) ==
    TransferStr([from_iban |-> src, to_iban |-> dst, transfer_type |-> kind,
                 transfer_concept |-> concept, transfer_date |-> date,
                 transfer_amount |-> amount, time_stamp |-> stamp])

HashedInputOf(o) ==
    HashedInput(o.from_iban, o.to_iban, o.transfer_type, o.transfer_concept,
                o.transfer_date, o.transfer_amount, o.time_stamp)

\* the requests the constructor and the setters can make of these values
CodeObjects ==
    [from_iban : CodeFromIbans, to_iban : CodeToIbans, transfer_type : CodeTypes,
     transfer_concept : CodeConcepts, transfer_date : CodeDates,
     transfer_amount : CodeAmounts, time_stamp : {FloatV(t * 1000) : t \in Timestamps}]

(* C12: the code read from a request, after any setters, is the hash of a   *)
(* text determined by its seven stored fields alone, so requests equal in   *)
(* all seven fields expose equal codes; and the text hashed for any request *)
(* that differs from it in some field is a different text.                  *)
C12_CodeOfSevenFields ==
    (last.op = "transfer_code" /\ tr # NoObject) =>
        /\ last.ret = StrV(md5(HashedInputOf(tr)))
        /\ \A o \in CodeObjects : o # tr => HashedInputOf(o) # HashedInputOf(tr)

\* the code was read after setters stored identifiers holding quotes and an
\* amount of another type
C12_Witness ==
    /\ last.op = "transfer_code"
    /\ tr # NoObject
    /\ tr.from_iban = StrV(<<"a">> \o Separator \o <<"b">>)
    /\ tr.to_iban = StrV(<<"c">>)
    /\ tr.transfer_amount = IntV(40)
    /\ last.ret = transfer_code(tr)

---------------------------------------------------------------------------
(* AccountManager.calculate_balance *)

MaxLogLen == 2

\* s.replace(" ", ""), and s.replace(",", ".")
WithoutSpaces(s) == SelectSeq(s, LAMBDA c : c # " ")

\* the text with its commas left as they are
CommasKept(s) == s

CommasToPoints(s) == [i \in 1..Len(s) |-> IF s[i] = "," THEN "." ELSE s[i]]

\* the text float() reads once the blanks around it are dropped: an optional
\* sign, then digits with at most one point among them and at least one digit
\* (float() also reads exponents, underscores, inf and nan, which no amount
\* of the logs below holds)
Unsigned(s) == IF s # <<>> /\ s[1] \in {"+", "-"} THEN Tail(s) ELSE s

IsFloatText(s) ==
    LET parts == split(Unsigned(strip(s)), ".")
    IN  /\ Len(parts) <= 2
        /\ \A k \in 1..Len(parts) : \A i \in 1..Len(parts[k]) : IsDigit(parts[k][i])
        /\ \E k \in 1..Len(parts) : parts[k] # <<>>

\* float(s) in thousandths, for a text with at most three decimals
FloatValue(s) ==
    LET t == strip(s)
        parts == split(Unsigned(t), ".")
        whole == ParseNat(parts[1]) * 1000
        frac == IF Len(parts) = 2 THEN FracValue(parts[2]) ELSE 0
    IN  IF t[1] = "-" THEN -(whole + frac) ELSE whole + frac

\* transactions.json: absent, a directory, text that is not JSON, a JSON
\* number or null, a JSON list of entries, a JSON object (entries: its keys)
LogFile(kind, entries) == [kind |-> kind, entries |-> entries]

\* an entry that is a JSON object with some of the keys "IBAN" and "amount"
IsDict(tx) == DOMAIN tx \subseteq {"IBAN", "amount"}

\* the characters I, B, A, N in a row somewhere in s
HasIBAN(s) ==
    \E i \in 1..(Len(s) - 3) : SubSeq(s, i, i + 3) = <<"I", "B", "A", "N">>

\* an entry with an "IBAN" key, whatever its value
HasIbanKey(tx, iban_number) == "IBAN" \in DOMAIN tx

\* "IBAN" in tx and tx["IBAN"] == iban_number, of an entry that is an object
IsMatch(tx, iban_number) == "IBAN" \in DOMAIN tx /\ PyEq(tx.IBAN, iban_number)

\* a default of "0" for an entry with no amount
AmountDefaultZero == StrV(<<"0">>)

\* the default of tx.get("amount", "")
AmountDefault == StrV(<<>>)

\* what the body of the loop does with one entry, the total so far given:
\* it goes on with [found, total], or raises
Step(tx, iban_number, found, total) ==
    LET go(f, t) == [result |-> "ok", found |-> f, total |-> t, exc |-> "", msg |-> ""]
        stop(exc, msg) == [result |-> "raise", found |-> found, total |-> total,
                           exc |-> exc, msg |-> msg]
    IN  IF IsDict(tx)
        THEN IF ~IsMatch(tx, iban_number) THEN go(found, total)
             ELSE LET amount_str == IF "amount" \in DOMAIN tx THEN tx.amount
                                    ELSE AmountDefault
                  IN  IF amount_str.t # "str"
                      THEN stop("AttributeError",
                                "'" \o amount_str.t \o "' object has no attribute 'replace'")
                      ELSE LET text == CommasToPoints(WithoutSpaces(amount_str.s))
                           IN  IF IsFloatText(text)
                               THEN go(TRUE, total + FloatValue(text))
                               ELSE stop(AME, "Invalid amount format in transactions")
        ELSE IF tx.t = "str"
        THEN IF HasIBAN(tx.s)
             THEN stop("TypeError", "string indices must be integers, not 'str'")
             ELSE go(found, total)
        ELSE stop("TypeError", "argument of type '" \o tx.t \o "' is not iterable")

\* the loop over the transactions from entry i on
RECURSIVE Scan(_, _, _, _, _)
Scan(transactions, i, iban_number, found, total) ==
    IF i > Len(transactions)
    THEN [result |-> "ok", found |-> found, total |-> total, exc |-> "", msg |-> ""]
    ELSE LET r == Step(transactions[i], iban_number, found, total)
         IN  IF r.result = "raise" THEN r
             ELSE Scan(transactions, i + 1, iban_number, r.found, r.total)

\* f"balance_{iban_number}.json"
BalanceFileName(iban_number) ==
    <<"b", "a", "l", "a", "n", "c", "e", "_">> \o iban_number.s
    \o <<".", "j", "s", "o", "n">>

\* the balance file as json.dump leaves it, and as a failed write leaves it
BalanceFile(iban_number, now, total) ==
    [name |-> BalanceFileName(iban_number),
     data |-> [IBAN |-> iban_number, timestamp |-> FloatV(now * 1000),
               balance |-> FloatV(total)]]

PartialBalanceFile(iban_number) == [name |-> BalanceFileName(iban_number), data |-> <<>>]

\* calculate_balance with the log loaded before the identifier is checked
calculate_balance_load_first(iban_number, now, disk) ==
    LET op == "calculate_balance"
        args == <<iban_number>>
        r == Scan(log.entries, 1, iban_number, FALSE, 0)
        fail(exc, msg) == last' = Raise(op, args, exc, msg) /\ balance' = balance
    IN  /\ IF log.kind = "absent" THEN fail(AME, "Transactions file not found")
           ELSE IF log.kind = "directory"
                THEN fail("IsADirectoryError",
                          "[Errno 21] Is a directory: 'transactions.json'")
           ELSE IF log.kind = "notjson"
                THEN fail(AME, "Transactions file is not valid JSON")
           ELSE IF ~validate_iban(iban_number) THEN fail(AME, "Invalid IBAN")
           ELSE IF log.kind = "scalar"
                THEN fail("TypeError", "'" \o log.entries[1].t \o "' object is not iterable")
           ELSE IF r.result = "raise" THEN fail(r.exc, r.msg)
           ELSE IF ~r.found THEN fail(AME, "IBAN not found in transactions")
           ELSE IF disk = "full"
                THEN /\ last' = Raise(op, args, AME,
                            "Error writing balance file: [Errno 28] No space left on device")
                     /\ balance' = PartialBalanceFile(iban_number)
           ELSE /\ last' = Return(op, args, BoolV(TRUE))
                /\ balance' = BalanceFile(iban_number, now, r.total)
        /\ UNCHANGED <<ad, tr, file, log, writers>>

\* AccountManager.calculate_balance(iban_number): now is the clock's reading,
\* disk says whether the write of the balance file succeeds
calculate_balance(iban_number, now, disk) ==
    LET op == "calculate_balance"
        args == <<iban_number>>
        r == Scan(log.entries, 1, iban_number, FALSE, 0)
        fail(exc, msg) == last' = Raise(op, args, exc, msg) /\ balance' = balance
    IN  /\ IF ~validate_iban(iban_number) THEN fail(AME, "Invalid IBAN")
           ELSE IF log.kind = "absent" THEN fail(AME, "Transactions file not found")
           ELSE IF log.kind = "directory"
                THEN fail("IsADirectoryError",
                          "[Errno 21] Is a directory: 'transactions.json'")
           ELSE IF log.kind = "notjson"
                THEN fail(AME, "Transactions file is not valid JSON")
           ELSE IF log.kind = "scalar"
                THEN fail("TypeError", "'" \o log.entries[1].t \o "' object is not iterable")
           ELSE IF r.result = "raise" THEN fail(r.exc, r.msg)
           ELSE IF ~r.found THEN fail(AME, "IBAN not found in transactions")
           ELSE IF disk = "full"
                THEN /\ last' = Raise(op, args, AME,
                            "Error writing balance file: [Errno 28] No space left on device")
                     /\ balance' = PartialBalanceFile(iban_number)
           ELSE /\ last' = Return(op, args, BoolV(TRUE))
                /\ balance' = BalanceFile(iban_number, now, r.total)
        /\ UNCHANGED <<ad, tr, file, log, writers>>

\* the entries a log holds: objects with and without the two keys, the
\* amounts as texts with point, comma and spaces, as a word and as a number,
\* and entries that are no objects
LogIbans == {ValidIban, ValidIban2}

LogAmounts ==
    {StrV(<<"1", "0", "0", ".", "0", "0">>), StrV(<<"2", "0", "0", ",", "5", "0">>),
     StrV(<<" ", "-", "1", " ", "0", " ">>), StrV(<<"a", "b", "c">>), FloatV(100000)}

LogEntries ==
    {[IBAN |-> i, amount |-> a] : i \in LogIbans, a \in LogAmounts}
    \cup {[IBAN |-> i] : i \in LogIbans}
    \cup {[amount |-> a] : a \in LogAmounts}
    \cup {<<>>, [IBAN |-> IntV(5), amount |-> StrV(<<"1", "0", "0", ".", "0", "0">>)]}
    \cup {IntV(5), StrV(<<"I", "B", "A", "N">>), StrV(<<"x">>)}

Logs ==
    {LogFile("absent", <<>>), LogFile("directory", <<>>), LogFile("notjson", <<>>),
     LogFile("scalar", <<IntV(5)>>), LogFile("scalar", <<None>>),
     LogFile("dict", <<>>), LogFile("dict", <<StrV(<<"I", "B", "A", "N">>)>>)}
    \cup {LogFile("list", e) : e \in UNION {[1..k -> LogEntries] : k \in 0..MaxLogLen}}

\* a balance file an earlier call left
OldBalance == BalanceFile(ValidIban, 1, 7000)

BalanceIbans == {ValidIban, ShortIban, IntV(5)}

InitBalance ==
    /\ ad = NoObject
    /\ tr = NoObject
    /\ file = Absent
    /\ last = NoCall
    /\ log \in Logs
    /\ balance \in {NoBalance, OldBalance}
    /\ writers = NoWriters

\* each run is one call
NextBalance ==
    /\ last = NoCall
    /\ \E i \in BalanceIbans, t \in Timestamps, d \in {"ok", "full"} :
           calculate_balance(i, t, d)

SpecBalance == InitBalance /\ [][NextBalance]_vars

\* what the contract of the aggregator says of a log: a sequence of mappings,
\* those that carry the identifier, the number an amount text stands for
IsMapping(tx) == "t" \notin DOMAIN tx

ListOfMappings ==
    log.kind = "list" /\ \A i \in 1..Len(log.entries) : IsMapping(log.entries[i])

CarriesIban(tx, id) == "IBAN" \in DOMAIN tx /\ tx.IBAN = id

Matching(id) == {i \in 1..Len(log.entries) : CarriesIban(log.entries[i], id)}

\* the amount text with its spaces stripped and its commas read as points
AmountText(s) ==
    LET t == SelectSeq(s, LAMBDA c : c # " ")
    IN  [i \in 1..Len(t) |-> IF t[i] = "," THEN "." ELSE t[i]]

Magnitude(s) == IF s # <<>> /\ s[1] \in {"+", "-"} THEN Tail(s) ELSE s

Points(s) == {i \in 1..Len(s) : s[i] = "."}

\* a number: an optional sign, digits, at most one point, at least one digit
IsDecimal(s) ==
    LET body == Magnitude(s)
    IN  /\ Cardinality(Points(body)) <= 1
        /\ \A i \in (1..Len(body)) \ Points(body) : IsDigit(body[i])
        /\ Len(body) > Cardinality(Points(body))

\* its value in thousandths
DecimalValue(s) ==
    LET body == Magnitude(s)
        p == IF Points(body) = {} THEN Len(body) + 1 ELSE CHOOSE i \in Points(body) : TRUE
        decimals == SubSeq(body, p + 1, Len(body)) \o <<"0", "0", "0">>
        v == ParseNat(SubSeq(body, 1, p - 1)) * 1000 + ParseNat(SubSeq(decimals, 1, 3))
    IN  IF s[1] = "-" THEN -v ELSE v

AmountIsText(tx) == "amount" \in DOMAIN tx /\ tx.amount.t = "str"

Parsable(tx) == AmountIsText(tx) /\ IsDecimal(AmountText(tx.amount.s))

RECURSIVE SumOver(_)
SumOver(S) ==
    IF S = {} THEN 0
    ELSE LET i == CHOOSE j \in S : TRUE
         IN  DecimalValue(AmountText(log.entries[i].amount.s)) + SumOver(S \ {i})

\* the write of the balance file failed
WriteFailed ==
    /\ last.result = "raise"
    /\ last.msg = "Error writing balance file: [Errno 28] No space left on device"

\* calculate_balance was called with a valid identifier on a log of mappings
BalanceOfLog ==
    /\ last.op = "calculate_balance"
    /\ IsIdentifier(last.args[1])
    /\ ListOfMappings

(* C13: for a valid identifier and a log of mappings in which at least one  *)
(* entry carries the identifier and every such entry has a parsable amount, *)
(* calculate_balance, unless the write itself fails, returns True and       *)
(* leaves in balance_<identifier>.json a record with the identifier and     *)
(* with the sum of the amounts of exactly the entries that carry it, spaces *)
(* stripped and commas read as points, whatever the other entries hold.     *)
C13_BalanceSum ==
    (/\ BalanceOfLog
     /\ Matching(last.args[1]) # {}
     /\ \A i \in Matching(last.args[1]) : Parsable(log.entries[i])
     /\ ~WriteFailed) =>
        /\ last.result = "ok"
        /\ last.ret = BoolV(TRUE)
        /\ balance.name = <<"b", "a", "l", "a", "n", "c", "e", "_">> \o last.args[1].s
                          \o <<".", "j", "s", "o", "n">>
        /\ balance.data.IBAN = last.args[1]
        /\ balance.data.balance = FloatV(SumOver(Matching(last.args[1])))

\* the log of 100.00 and 200,50 gave the balance 300.5
C13_Witness ==
    /\ last.op = "calculate_balance"
    /\ last.result = "ok"
    /\ log = LogFile("list",
                 <<[IBAN |-> ValidIban, amount |-> StrV(<<"1", "0", "0", ".", "0", "0">>)],
                   [IBAN |-> ValidIban, amount |-> StrV(<<"2", "0", "0", ",", "5", "0">>)]>>)
    /\ balance.data.IBAN = ValidIban
    /\ balance.data.balance = FloatV(300500)

(* C14: for a valid identifier and a log of mappings, calculate_balance     *)
(* raises "IBAN not found in transactions" exactly when no entry of the     *)
(* log, the empty log included, carries an "IBAN" key equal to the          *)
(* identifier, and then the balance file is as it was before the call.      *)
C14_NotFound ==
    [][BalanceOfLog' =>
        /\ (last'.result = "raise" /\ last'.msg = "IBAN not found in transactions")
               <=> Matching(last'.args[1]) = {}
        /\ Matching(last'.args[1]) = {} => (last'.exc = AME /\ balance' = balance)]_vars

\* entries of another identifier, and of no identifier, were scanned and the
\* identifier was not found
C14_Witness ==
    /\ last.op = "calculate_balance"
    /\ last.args[1] = ValidIban
    /\ log = LogFile("list",
                 <<[IBAN |-> ValidIban2, amount |-> StrV(<<"1", "0", "0", ".", "0", "0">>)],
                   [amount |-> StrV(<<"a", "b", "c">>)]>>)
    /\ last.msg = "IBAN not found in transactions"
    /\ balance = NoBalance

(* C15: with an identifier that is not valid calculate_balance raises        *)
(* "Invalid IBAN" whether transactions.json is absent, not JSON, or a log,  *)
(* and leaves the balance file alone; with a valid identifier an absent log *)
(* raises "Transactions file not found" and a log that is not JSON raises   *)
(* "Transactions file is not valid JSON", two different messages.           *)
C15_IdentifierFirst ==
    [][last'.op = "calculate_balance" =>
        /\ ~IsIdentifier(last'.args[1]) =>
               /\ last' = Raise("calculate_balance", last'.args, AME, "Invalid IBAN")
               /\ balance' = balance
        /\ (IsIdentifier(last'.args[1]) /\ log.kind = "absent") =>
               last' = Raise("calculate_balance", last'.args, AME,
                             "Transactions file not found")
        /\ (IsIdentifier(last'.args[1]) /\ log.kind = "notjson") =>
               last' = Raise("calculate_balance", last'.args, AME,
                             "Transactions file is not valid JSON")]_vars

\* an identifier of 23 characters was refused though the log is not JSON
C15_Witness ==
    /\ last = Raise("calculate_balance", <<ShortIban>>, AME, "Invalid IBAN")
    /\ log.kind = "notjson"

\* the amount of the entry, if it has one, is a text
TextOrAbsent(tx) == "amount" \notin DOMAIN tx \/ tx.amount.t = "str"

(* C16: for a valid identifier and a log of mappings whose entries that     *)
(* carry the identifier have text amounts or none, calculate_balance raises *)
(* "Invalid amount format in transactions" whenever one of those entries    *)
(* has an amount that does not parse, or no amount, even if the others are  *)
(* well formed; when all of them parse it does not raise that error,        *)
(* whatever the amounts of the other entries.                               *)
C16_AmountFormat ==
    (BalanceOfLog /\ \A i \in Matching(last.args[1]) : TextOrAbsent(log.entries[i])) =>
        IF \E i \in Matching(last.args[1]) : ~Parsable(log.entries[i])
        THEN last = Raise("calculate_balance", last.args, AME,
                          "Invalid amount format in transactions")
        ELSE last.msg # "Invalid amount format in transactions"

\* a well formed entry, then one of the same identifier without an amount
C16_Witness ==
    /\ last.op = "calculate_balance"
    /\ log = LogFile("list",
                 <<[IBAN |-> ValidIban, amount |-> StrV(<<"1", "0", "0", ".", "0", "0">>)],
                   [IBAN |-> ValidIban]>>)
    /\ last.args[1] = ValidIban
    /\ last.msg = "Invalid amount format in transactions"

(* C17: calculate_balance ends in one of two ways, whatever the identifier, *)
(* the content of the log and the outcome of the file operations: it        *)
(* returns True with the balance file written, or it raises                 *)
(* AccountManagementException with a message; it never returns False.       *)
C17_OnlyAccountManagementException ==
    last.op = "calculate_balance" =>
        \/ /\ last.result = "ok"
           /\ last.ret = BoolV(TRUE)
           /\ balance.data # <<>>
           /\ balance.data.IBAN = last.args[1]
        \/ /\ last.result = "raise"
           /\ last.exc = AME
           /\ last.msg # ""

---------------------------------------------------------------------------
(* save_to_file with every content of the file and outcome of the write *)

\* what deposits.json holds before the first call
SaveFiles ==
    {Absent, ListFile(<<>>), NotJson, DictFile, Directory, ScalarFile(IntV(5)),
     ScalarFile(None), ScalarFile(StrV(<<"a", "b", "c">>))}

\* amounts for the setter: one json.dump cannot write among them
SaveAmounts == {FloatV(5000), Bytes}

InitSave ==
    /\ ad = NoObject
    /\ tr = NoObject
    /\ file \in SaveFiles
    /\ last = NoCall
    /\ log = Absent
    /\ balance = NoBalance
    /\ writers = NoWriters

NextSave ==
    \/ \E a \in LifeAmounts, t \in Timestamps : NewDeposit(ValidIban, a, t)
    \/ DelDeposit
    \/ \E v \in SaveAmounts : SetDepositAmount(v)
    \/ \E d \in {"ok", "full"} : SaveToFile(d)

SpecSave == InitSave /\ [][NextSave]_vars

\* a step that is a call of save_to_file
SaveStep == \E d \in {"ok", "full"} : SaveToFile(d)

\* the message of the failure that reading or parsing the file ends in
ReadFailure(f) ==
    CASE f.kind = "directory" -> "[Errno 21] Is a directory: 'deposits.json'"
      [] f.kind = "notjson" -> "Expecting value: line 1 column 1 (char 0)"
      [] f.kind = "dict" -> "'dict' object has no attribute 'append'"
      [] f = ScalarFile(IntV(5)) -> "'int' object is not iterable"
      [] f = ScalarFile(None) -> "'NoneType' object is not iterable"
      [] f.kind = "scalar" -> "'str' object has no attribute 'append'"
      [] OTHER -> ""

\* the messages of the failures of the write
WriteFailures ==
    {"[Errno 28] No space left on device",
     "Object of type bytes is not JSON serializable"}

(* C18: a save_to_file that fails raises AccountManagementException and     *)
(* nothing else, with "Error saving deposit to file: " and then the message *)
(* of the failure it met: that of opening a file that cannot be read, of    *)
(* parsing content that is not JSON, of using content that is not a list,   *)
(* or of the write.                                                         *)
C18_FailuresWrapped ==
    [][SaveStep =>
        /\ last'.result = "raise" => last'.exc = AME
        /\ ReadFailure(file) # "" =>
               last' = Raise("save_to_file", <<>>, AME,
                             "Error saving deposit to file: " \o ReadFailure(file))
        /\ file'.kind = "partial" =>
               \E m \in WriteFailures :
                   last' = Raise("save_to_file", <<>>, AME,
                                 "Error saving deposit to file: " \o m)]_vars

\* the write of a record whose amount is a bytes object failed
C18_Witness ==
    /\ last = Raise("save_to_file", <<>>, AME,
           "Error saving deposit to file: Object of type bytes is not JSON serializable")
    /\ ad # NoObject
    /\ ad.deposit_amount = Bytes

(* C19: a save_to_file that raises, for a duplicate, a failure to parse or  *)
(* a failure while writing, leaves the file holding what it held before.    *)
C19_NoPartialWrite ==
    [][(SaveStep /\ last'.result = "raise") => file' = file]_vars

---------------------------------------------------------------------------
(* Two processes saving to the same file: save_to_file in the two steps     *)
(* that the file system lets other processes see, the load of lines 63-68   *)
(* and the check, append and rewrite of lines 71-78                         *)

Writers == {"A", "B"}

\* the steps a writer has taken, and the number of the step taken next
StepsDone(w) ==
    CASE writers[w].pc = "start" -> 0
      [] writers[w].pc = "loaded" -> 1
      [] OTHER -> 2

StepNumber == StepsDone("A") + StepsDone("B") + 1

\* the list read from the file again at the moment of the rewrite
WriterDataReloaded(w) == IF file.kind = "list" THEN LoadData(file) ELSE <<>>

\* the list the writer holds in memory since its load
WriterData(w) == writers[w].data

\* lines 63-68: data = [], or json.load(f) if the file exists
WriterLoad(w) ==
    /\ writers # NoWriters
    /\ writers[w].pc = "start"
    /\ writers' = [writers EXCEPT ![w].pc = "loaded",
                                  ![w].data = IF file.kind = "list" THEN LoadData(file)
                                              ELSE <<>>,
                                  ![w].loaded_at = StepNumber]
    /\ UNCHANGED <<ad, tr, file, last, log, balance>>

\* lines 71-78: the duplicate check on the list in memory, the append, and
\* the rewrite of the file
WriterRewrite(w) ==
    /\ writers # NoWriters
    /\ writers[w].pc = "loaded"
    /\ LET entry == to_json(writers[w].obj)
           data == WriterData(w)
       IN  IF IsDuplicate(data, entry)
           THEN /\ writers' = [writers EXCEPT ![w].pc = "done",
                                              ![w].result = "raise",
                                              ![w].wrote_at = StepNumber]
                /\ file' = file
           ELSE /\ writers' = [writers EXCEPT ![w].pc = "done",
                                              ![w].result = "ok",
                                              ![w].wrote_at = StepNumber]
                /\ file' = ListFile([i \in 1..Len(data) |-> DumpEntry(data[i])]
                                     \o <<DumpEntry(entry)>>)
    /\ UNCHANGED <<ad, tr, last, log, balance>>

\* a writer about to call save_to_file on its record
Writer(o) ==
    [pc |-> "start", obj |-> o, data |-> <<>>, result |-> "", loaded_at |-> 0,
     wrote_at |-> 0]

\* the records of the writers, and an entry a third record left in the file
RaceRecords ==
    {DepositFields(ValidIban, a, t) : a \in LifeAmounts, t \in Timestamps}

OldEntry == DumpEntry(to_json(DepositFields(ValidIban2, FloatV(100000), 1)))

InitRace ==
    /\ ad = NoObject
    /\ tr = NoObject
    /\ file \in {Absent, ListFile(<<>>), ListFile(<<OldEntry>>)}
    /\ last = NoCall
    /\ log = Absent
    /\ balance = NoBalance
    /\ \E a \in RaceRecords, b \in RaceRecords :
           /\ a # b
           /\ writers = [w \in Writers |-> IF w = "A" THEN Writer(a) ELSE Writer(b)]

NextRace ==
    \/ \E w \in Writers : WriterLoad(w)
    \/ \E w \in Writers : WriterRewrite(w)

SpecRace == InitRace /\ [][NextRace]_vars

\* the entry of writer w is in the file
InFile(w) ==
    /\ file.kind = "list"
    /\ \E i \in 1..Len(file.entries) : file.entries[i] = DumpEntry(to_json(writers[w].obj))

\* both saves ended
BothDone == writers # NoWriters /\ \A w \in Writers : writers[w].pc = "done"

\* the load and the rewrite of b both fall between the load and the rewrite of a
Nested(a, b) ==
    /\ writers[a].loaded_at < writers[b].loaded_at
    /\ writers[b].wrote_at < writers[a].wrote_at

\* the save of a ended before the save of b began
OneAfterTheOther(a, b) == writers[a].wrote_at < writers[b].loaded_at

(* C20: two writers save different records to the same file and both saves  *)
(* report success; when the load and the rewrite of one fall between the    *)
(* load and the rewrite of the other, the file in the end lacks the entry   *)
(* of the one in between; when the saves run one after the other, the file  *)
(* holds both entries.                                                      *)
C20_LostUpdate ==
    BothDone =>
        /\ \A w \in Writers : writers[w].result = "ok"
        /\ \A a \in Writers, b \in Writers :
               /\ Nested(a, b) => (InFile(a) /\ ~InFile(b))
               /\ OneAfterTheOther(a, b) => (InFile(a) /\ InFile(b))

\* B loaded and rewrote between the load and the rewrite of A, both saves
\* succeeded, and the file holds the entry of A alone
C20_Witness ==
    /\ BothDone
    /\ Nested("A", "B")
    /\ writers["A"].result = "ok"
    /\ writers["B"].result = "ok"
    /\ file.kind = "list"
    /\ Len(file.entries) = 1
    /\ InFile("A")
    /\ ~InFile("B")

---------------------------------------------------------------------------
(* One AccountDeposit whose fields are assigned after construction, read    *)
(* with to_json and saved                                                   *)

\* identifiers and amounts, valid and not, for the constructor and the setters
SetterIbans == {ValidIban, ShortIban}

SetterAmounts == {FloatV(100000), FloatV(5000), Bytes}

InitSetters ==
    /\ ad = NoObject
    /\ tr = NoObject
    /\ file \in {Absent, ListFile(<<>>)}
    /\ last = NoCall
    /\ log = Absent
    /\ balance = NoBalance
    /\ writers = NoWriters

NextSetters ==
    \/ \E i \in SetterIbans, a \in SetterAmounts, t \in Timestamps : NewDeposit(i, a, t)
    \/ \E v \in SetterIbans : SetToIban(v)
    \/ \E v \in SetterAmounts : SetDepositAmount(v)
    \/ CallToJson
    \/ save_to_file

SpecSetters == InitSetters /\ [][NextSetters]_vars

\* the constructor rejects this identifier with this amount
Rejected(iban, amount) == \E k \in 1..6 : RuleViolated(k, iban, amount)

\* the file can be read as a list and none of its entries is the text of e
Appendable(e) ==
    /\ file.kind \in {"absent", "list"}
    /\ \A i \in 1..Len(file.entries) : file.entries[i] # DumpEntry(e)

---------------------------------------------------------------------------
(* One writer: records constructed one after another, their amounts         *)
(* assigned and assigned back, saved to a file that starts absent or empty  *)

\* amounts for the setter: two numbers to go to and back, and nan
LedgerAmounts == LifeAmounts \cup {NaN}

InitLedger ==
    /\ ad = NoObject
    /\ tr = NoObject
    /\ file \in {Absent, ListFile(<<>>)}
    /\ last = NoCall
    /\ log = Absent
    /\ balance = NoBalance
    /\ writers = NoWriters

NextLedger ==
    \/ \E a \in LifeAmounts, t \in Timestamps : NewDeposit(ValidIban, a, t)
    \/ DelDeposit
    \/ \E v \in LedgerAmounts : SetDepositAmount(v)
    \/ save_to_file

SpecLedger == InitLedger /\ [][NextLedger]_vars

\* the six keys of an entry
SixKeys ==
    {"alg", "typ", "to_iban", "deposit_amount", "deposit_date", "deposit_signature"}

\* entry i of the file is, key by key, what the record serializes to now
SameInAllKeys(i) ==
    /\ DOMAIN file.entries[i] = SixKeys
    /\ \A k \in SixKeys : file.entries[i][k] = JsonDumps(to_json(ad)[k])

\* entry i has the identifier and the amount of the record, and another date
SameButDate(i) ==
    /\ file.entries[i].to_iban = JsonDumps(ad.to_iban)
    /\ file.entries[i].deposit_amount = JsonDumps(ad.deposit_amount)
    /\ file.entries[i].deposit_date # JsonDumps(ad.deposit_date)

\* the save was rejected as a duplicate
RejectedAsDuplicate(call) ==
    /\ call.op = "save_to_file"
    /\ call.result = "raise"
    /\ call.msg \in {"Duplicate deposit entry detected.",
                     "Error saving deposit to file: Duplicate deposit entry detected."}

(* C22: a save_to_file is rejected as a duplicate only if an entry of the   *)
(* file equals the record's serialization in all six keys; a record whose   *)
(* identifier and amount are those of an entry with another timestamp, and  *)
(* that no entry equals in all six keys, is saved and both are in the file. *)
C22_WholeEntryCompared ==
    [][save_to_file =>
        /\ RejectedAsDuplicate(last') =>
               \E i \in 1..Len(file.entries) : SameInAllKeys(i)
        /\ (/\ \E i \in 1..Len(file.entries) : SameButDate(i)
            /\ \A i \in 1..Len(file.entries) : ~SameInAllKeys(i)) =>
               /\ last' = Call("save_to_file", <<>>)
               /\ Len(file'.entries) = Len(file.entries) + 1
               /\ SubSeq(file'.entries, 1, Len(file.entries)) = file.entries
               /\ file'.entries[Len(file'.entries)] = DumpEntry(to_json(ad))]_vars

\* two entries of one identifier and one amount with two timestamps, the
\* second just saved
C22_Witness ==
    /\ last = Call("save_to_file", <<>>)
    /\ file.kind = "list"
    /\ Len(file.entries) = 2
    /\ file.entries[1].to_iban = file.entries[2].to_iban
    /\ file.entries[1].deposit_amount = file.entries[2].deposit_amount
    /\ file.entries[1].deposit_amount # JsonDumps(NaN)
    /\ file.entries[1].deposit_date # file.entries[2].deposit_date

---------------------------------------------------------------------------
(* What a save_to_file does to the entries the file held *)

\* the entries a file holds: those of its list, none when it holds no list
Entries(f) == IF f.kind = "list" THEN f.entries ELSE <<>>

\* the step kept the entries in their places and put the record's
\* serialization after them
SuccessAppends ==
    /\ file'.kind = "list"
    /\ Len(file'.entries) = Len(Entries(file)) + 1
    /\ SubSeq(file'.entries, 1, Len(Entries(file))) = Entries(file)
    /\ file'.entries[Len(file'.entries)] = DumpEntry(to_json(ad))

\* the step removed no entry and moved none
NothingRemoved ==
    /\ Len(Entries(file')) >= Len(Entries(file))
    /\ SubSeq(Entries(file'), 1, Len(Entries(file))) = Entries(file)

(* C23: a save_to_file that succeeds leaves the entries the file held,      *)
(* unchanged and in their order, followed by the record's serialization as  *)
(* the last entry, one entry more than before; and no save_to_file, failed  *)
(* ones included, removes or reorders an entry.                             *)
C23_AppendOnly ==
    [][SaveStep =>
        /\ last'.result = "ok" => SuccessAppends
        /\ NothingRemoved]_vars

(* C24: with one writer and a file that starts absent or empty, whatever    *)
(* the saves and the assignments through setters, on however many records,  *)
(* the file never holds two identical entries.                              *)
C24_NoIdenticalEntries ==
    file.kind = "list" =>
        \A i \in 1..Len(file.entries), j \in 1..Len(file.entries) :
            i # j => file.entries[i] # file.entries[j]

\* an entry of the file is the record's serialization, and no value of it
\* is nan
AlreadySaved ==
    /\ file.kind = "list"
    /\ \E i \in 1..Len(file.entries) : file.entries[i] = DumpEntry(to_json(ad))
    /\ \A k \in SixKeys : to_json(ad)[k] # NaN

(* C25: the duplicate rejection of save_to_file reaches the caller wrapped  *)
(* like a failure of the file operations: an AccountManagementException     *)
(* whose message is "Error saving deposit to file: Duplicate deposit entry  *)
(* detected.", not the duplicate message alone.                             *)
C25_DuplicateWrapped ==
    [][(save_to_file /\ AlreadySaved) =>
        /\ last'.result = "raise"
        /\ last'.exc = "AccountManagementException"
        /\ last'.msg = "Error saving deposit to file: Duplicate deposit entry detected."
        /\ last'.msg # "Duplicate deposit entry detected."]_vars

\* a record saved, its amount assigned and assigned back, and its save
\* rejected with the wrapped message while two entries are in the file
C25_Witness ==
    /\ last.op = "save_to_file"
    /\ last.msg = "Error saving deposit to file: Duplicate deposit entry detected."
    /\ ad # NoObject
    /\ file.kind = "list"
    /\ Len(file.entries) = 2
    /\ file.entries[1] = DumpEntry(to_json(ad))

====
